---- MODULE Spec2Model ----
(***************************************************************************)
(* A model of cellprofiler/modules/loadsingleimage.py: the LoadSingleImage *)
(* module's settings list, its path resolver, its run loop, its column     *)
(* declaration and its settings migration.                                 *)
(*                                                                         *)
(* Python strings are TLA+ strings; Python's 0-based positions are kept in *)
(* the names of the operators (At0, find) and translated to 1-based ones   *)
(* inside them.                                                            *)
(***************************************************************************)
EXTENDS Integers, Sequences, FiniteSets, TLC

VARIABLES
    platform,          \* "posix" or "nt": decides os.sep and os.altsep
    default_image_directory,   \* cpprefs.get_default_image_directory()
    default_output_directory,  \* cpprefs.get_default_output_directory()
    metadata,          \* the image set's metadata: <<has P, value of P>>
    dir_choice,        \* self.dir_choice.value
    custom_directory,  \* self.custom_directory.value
    file_settings,     \* self.file_settings: a sequence of groups
    op,                \* the last operation that returned or raised
    ret,               \* what it returned
    err,               \* the exception it raised, or "none"
    pc,                \* the position inside run
    names,             \* run: the dictionary of get_file_names
    root,              \* run: the base directory
    todo,              \* run: the keys of the dictionary not yet iterated
    cur,               \* run: the key of the current iteration
    providers,         \* workspace.image_set.providers
    store,             \* workspace.measurements: feature -> values written
    decodes,           \* image name -> number of provide_image calls
    unreadable,        \* the files the decoding provider cannot read
    setting_values,    \* upgrade_settings: the value sequence
    variable_revision_number,  \* upgrade_settings: the revision number
    from_matlab,       \* upgrade_settings: the origin flag
    given,             \* the arguments of the calls the properties are about
    short_given        \* prepare_settings was once given fewer than 4 values

vars == <<platform, default_image_directory, default_output_directory, metadata,
          dir_choice, custom_directory, file_settings, op, ret, err,
          pc, names, root, todo, cur, providers, store, decodes, unreadable,
          setting_values, variable_revision_number, from_matlab, given,
          short_given>>

settingsVars == <<dir_choice, custom_directory, file_settings>>
envVars == <<platform, default_image_directory, default_output_directory, metadata>>
runVars == <<pc, names, root, todo, cur, providers, store, decodes, unreadable>>
upgradeVars == <<setting_values, variable_revision_number, from_matlab>>

(***************************************************************************)
(* Bounds of the model.                                                    *)
(***************************************************************************)
MaxPieces == 3      \* pieces a custom directory template is built from
MaxFiles == 3       \* entries the settings list may grow to
MaxValues == 8      \* longest value sequence handed to prepare_settings
MaxRevision == 5    \* largest revision number handed to upgrade_settings

(***************************************************************************)
(* Python string and list primitives.                                      *)
(***************************************************************************)
Min(a, b) == IF a < b THEN a ELSE b
Max(a, b) == IF a > b THEN a ELSE b

\* s[i:j] for 0 <= i, clipped like a Python slice
Slice(s, i, j) == SubSeq(s, i + 1, Min(j, Len(s)))
\* s[i:]
From(s, i) == SubSeq(s, i + 1, Len(s))
\* s.startswith(p)
startswith(s, p) == Len(s) >= Len(p) /\ SubSeq(s, 1, Len(p)) = p
\* s.endswith(p)
endswith(s, p) == Len(s) >= Len(p) /\ SubSeq(s, Len(s) - Len(p) + 1, Len(s)) = p
\* s.find(sub): the lowest 0-based index where sub occurs, or -1
find(s, sub) ==
    LET hits == {i \in 0..(Len(s) - Len(sub)) : SubSeq(s, i + 1, i + Len(sub)) = sub}
    IN IF hits = {} THEN -1 ELSE CHOOSE i \in hits : \A j \in hits : i <= j

\* the flattening of a sequence of strings
RECURSIVE Concat(_)
Concat(ss) == IF ss = <<>> THEN "" ELSE Head(ss) \o Concat(Tail(ss))

RECURSIVE SeqsUpTo(_, _)
SeqsUpTo(S, n) ==
    IF n = 0 THEN {<<>>}
    ELSE LET shorter == SeqsUpTo(S, n - 1)
         IN shorter \cup {Append(s, x) : s \in {t \in shorter : Len(t) = n - 1}, x \in S}

(***************************************************************************)
(* The module-level names and the names of cellprofiler.preferences.       *)
(***************************************************************************)
DIR_CUSTOM_FOLDER == "Custom folder"
DIR_CUSTOM_WITH_METADATA == "Custom with metadata"
DEFAULT_INPUT_FOLDER_NAME == "Default Input Folder"
DEFAULT_OUTPUT_FOLDER_NAME == "Default Output Folder"

DirChoices == {DEFAULT_INPUT_FOLDER_NAME, DEFAULT_OUTPUT_FOLDER_NAME,
               DIR_CUSTOM_FOLDER, DIR_CUSTOM_WITH_METADATA}

\* the names a function of the module can read as globals
ModuleGlobals == {"hashlib", "np", "re", "os", "cpi", "cpm", "cpmeas", "cpprefs", "cps",
                  "LoadImagesImageProvider",
                  "USING_METADATA_TAGS_REF", "USING_METADATA_HELP_REF",
                  "standardize_default_folder_names",
                  "DEFAULT_INPUT_FOLDER_NAME", "DEFAULT_OUTPUT_FOLDER_NAME",
                  "DIR_CUSTOM_FOLDER", "DIR_CUSTOM_WITH_METADATA", "LoadSingleImage"}

(***************************************************************************)
(* os.sep, os.altsep and os.path.join.                                     *)
(***************************************************************************)
Platforms == {"posix", "nt"}
os_sep(pf) == IF pf = "nt" THEN "\\" ELSE "/"
\* "" stands for None, which is false in a condition
os_altsep(pf) == IF pf = "nt" THEN "/" ELSE ""

IsSepChar(pf, c) == c # "" /\ (c = os_sep(pf) \/ c = os_altsep(pf))

os_path_join(pf, a, b) ==
    IF pf = "posix"
    THEN IF startswith(b, "/") THEN b
         ELSE IF a = "" \/ endswith(a, "/") THEN a \o b
         ELSE a \o "/" \o b
    ELSE IF Len(b) > 0 /\ IsSepChar(pf, Slice(b, 0, 1)) THEN b
         ELSE IF a = "" THEN b
         ELSE IF IsSepChar(pf, From(a, Len(a) - 1)) \/ endswith(a, ":") THEN a \o b
         ELSE a \o "\\" \o b

(***************************************************************************)
(* Metadata substitution (measurements.apply_metadata): each tag \g<K> or  *)
(* (?<K>) whose key K has a value is replaced by the value; a tag whose    *)
(* key has none stays as written.                                          *)
(***************************************************************************)
NoMetadata == <<FALSE, "">>
HasKey(md, k) == k = "P" /\ md[1]
ValueOf(md, k) == md[2]

\* the tag at the head of s: <<length of the tag, its key>>, or <<0, "">>
TagAt(s) ==
    LET open == IF startswith(s, "\\g<") THEN 3
                ELSE IF startswith(s, "(?<") THEN 3 ELSE 0
        close == IF startswith(s, "\\g<") THEN ">" ELSE ">)"
        rest == From(s, open)
        e == find(rest, close)
    IN IF open = 0 \/ e < 1 THEN <<0, "">>
       ELSE <<open + e + Len(close), Slice(rest, 0, e)>>

RECURSIVE apply_metadata(_, _)
apply_metadata(md, pattern) ==
    IF pattern = "" THEN ""
    ELSE LET t == TagAt(pattern)
         IN IF t[1] > 0 /\ HasKey(md, t[2])
            THEN ValueOf(md, t[2]) \o apply_metadata(md, From(pattern, t[1]))
            ELSE Slice(pattern, 0, 1) \o apply_metadata(md, From(pattern, 1))

(***************************************************************************)
(* LoadSingleImage.get_base_directory                                      *)
(***************************************************************************)
HasPrefix(pf, s, c) ==
    \/ Slice(s, 0, 2) = c \o os_sep(pf)
    \/ (os_altsep(pf) # "" /\ Slice(s, 0, 2) = c \o os_altsep(pf))

\* lines 201-209, which both custom choices go through
RemapPrefix(pf, did, dod, base) ==
    IF HasPrefix(pf, base, ".") THEN os_path_join(pf, did, From(base, 2))
    ELSE IF HasPrefix(pf, base, "&") THEN os_path_join(pf, dod, From(base, 2))
    ELSE base

\* a resolver that applies the metadata to both custom choices
SubstitutedAlways(choice, custom, md) == apply_metadata(md, custom)

\* lines 198-200: the template, with the metadata applied for one choice only
Substituted(choice, custom, md) ==
    IF choice = DIR_CUSTOM_WITH_METADATA THEN apply_metadata(md, custom) ELSE custom

\* a resolver that remaps the prefix of the template before it substitutes
get_base_directory_remap_first(pf, did, dod, md, choice, custom) ==
    IF choice = DEFAULT_INPUT_FOLDER_NAME THEN did
    ELSE IF choice = DEFAULT_OUTPUT_FOLDER_NAME THEN dod
    ELSE Substituted(choice, RemapPrefix(pf, did, dod, custom), md)

get_base_directory(pf, did, dod, md, choice, custom) ==
    IF choice = DEFAULT_INPUT_FOLDER_NAME THEN did
    ELSE IF choice = DEFAULT_OUTPUT_FOLDER_NAME THEN dod
    ELSE RemapPrefix(pf, did, dod, Substituted(choice, custom, md))

(***************************************************************************)
(* The values the variables of an operation take while another part of the *)
(* module is exercised.                                                    *)
(***************************************************************************)
RunIdle ==
    /\ pc = "idle" /\ names = <<>> /\ root = "" /\ todo = {} /\ cur = ""
    /\ providers = <<>> /\ store = <<>> /\ decodes = <<>> /\ unreadable = {}

UpgradeIdle ==
    /\ setting_values = <<>> /\ variable_revision_number = 0
    /\ from_matlab = FALSE

EnvFixed ==
    /\ platform = "posix" /\ default_image_directory = "/in"
    /\ default_output_directory = "/out" /\ metadata = NoMetadata

(***************************************************************************)
(* The path resolver on its inputs: get_base_directory reads the two       *)
(* directory settings, the preferences and the image set's metadata.       *)
(***************************************************************************)
PathPieces == {".", "&", "/", "\\", "a", "\\g<P>"}
Templates == {Concat(ps) : ps \in SeqsUpTo(PathPieces, MaxPieces)}
MetadataSets == {NoMetadata, <<TRUE, ".">>, <<TRUE, "&">>, <<TRUE, "b">>}
DefaultImageDirectories == {"/in", "/img/"}

PathInit ==
    /\ platform \in Platforms
    /\ default_image_directory \in DefaultImageDirectories
    /\ default_output_directory = "/out"
    /\ metadata \in MetadataSets
    /\ dir_choice \in DirChoices
    /\ custom_directory \in Templates
    /\ file_settings = <<>>
    /\ op = "init" /\ given = <<>> /\ ret = <<>> /\ err = "none"
    /\ short_given = FALSE
    /\ RunIdle
    /\ UpgradeIdle

GetBaseDirectory ==
    /\ op = "init"
    /\ op' = "get_base_directory"
    /\ UNCHANGED <<given, short_given>>
    /\ ret' = get_base_directory(platform, default_image_directory,
                                 default_output_directory, metadata,
                                 dir_choice, custom_directory)
    /\ UNCHANGED <<err, settingsVars, envVars, runVars, upgradeVars>>

PathNext == GetBaseDirectory

SpecPath == PathInit /\ [][PathNext]_vars

(***************************************************************************)
(* The settings list: create_settings, add_file, the remove button of a    *)
(* group, prepare_settings, and the values the host writes into the        *)
(* settings that settings() hands out.                                     *)
(***************************************************************************)
FileNames == {"None", "img.tif", "\\g<P>.tif"}
ImageNames == {"OrigBlue", "Illum"}
CustomDirectories == {".", "./a"}

\* add_file: a group with the default file name and image name; it has a
\* remove button (and a divider) when can_remove
NewGroup(can_remove) ==
    [file_name |-> "None", image_name |-> "OrigBlue", can_remove |-> can_remove]

\* a create_settings whose first group can be removed
FirstGroupsRemovable == <<NewGroup(TRUE)>>

\* create_settings, lines 79-80: the list after self.add_file(can_remove = False)
FirstGroups == <<NewGroup(FALSE)>>

\* list.remove of the group at 1-based position i
RemoveAt(fs, i) == SubSeq(fs, 1, i - 1) \o SubSeq(fs, i + 1, Len(fs))

\* (len(setting_values) - 2) / 2 in Python 2, for len >= 0: floor division
CountOf(len) == (len - 2) \div 2

RECURSIVE Grow(_, _)
Grow(fs, count) ==
    IF Len(fs) < count THEN Grow(Append(fs, NewGroup(TRUE)), count) ELSE fs

\* del self.file_settings[count:], then add_file() until there are count
prepare_settings_list(fs, count) ==
    Grow(IF count < 0 THEN SubSeq(fs, 1, Max(0, Len(fs) + count))
         ELSE SubSeq(fs, 1, Min(count, Len(fs))), count)

Called(name, args, value, error) ==
    op' = name /\ given' = args /\ ret' = value /\ err' = error

SettingsInit ==
    /\ EnvFixed
    /\ dir_choice = DEFAULT_INPUT_FOLDER_NAME
    /\ custom_directory = "."
    /\ file_settings = FirstGroups
    /\ op = "init" /\ given = <<>> /\ ret = <<>> /\ err = "none"
    /\ short_given = FALSE
    /\ RunIdle
    /\ UpgradeIdle

add_file ==
    /\ Len(file_settings) < MaxFiles
    /\ file_settings' = Append(file_settings, NewGroup(TRUE))
    /\ Called("add_file", <<>>, <<>>, "none")
    /\ UNCHANGED short_given
    /\ UNCHANGED <<dir_choice, custom_directory, envVars, runVars, upgradeVars>>

remove_button ==
    \E i \in 1..Len(file_settings) :
        /\ file_settings[i].can_remove
        /\ file_settings' = RemoveAt(file_settings, i)
        /\ Called("remove", <<>>, <<>>, "none")
        /\ UNCHANGED short_given
        /\ UNCHANGED <<dir_choice, custom_directory, envVars, runVars, upgradeVars>>

prepare_settings(lengths) ==
    \E len \in lengths :
        /\ CountOf(len) <= MaxFiles
        /\ file_settings' = prepare_settings_list(file_settings, CountOf(len))
        /\ Called("prepare_settings", <<len>>, <<>>, "none")
        /\ short_given' = (short_given \/ len < 4)
        /\ UNCHANGED <<dir_choice, custom_directory, envVars, runVars, upgradeVars>>

set_file_name ==
    \E i \in 1..Len(file_settings), f \in FileNames :
        /\ file_settings' = [file_settings EXCEPT ![i].file_name = f]
        /\ Called("set", <<>>, <<>>, "none")
        /\ UNCHANGED short_given
        /\ UNCHANGED <<dir_choice, custom_directory, envVars, runVars, upgradeVars>>

set_image_name ==
    \E i \in 1..Len(file_settings), n \in ImageNames :
        /\ file_settings' = [file_settings EXCEPT ![i].image_name = n]
        /\ Called("set", <<>>, <<>>, "none")
        /\ UNCHANGED short_given
        /\ UNCHANGED <<dir_choice, custom_directory, envVars, runVars, upgradeVars>>

set_dir_choice ==
    \E c \in DirChoices :
        /\ dir_choice' = c
        /\ Called("set", <<>>, <<>>, "none")
        /\ UNCHANGED short_given
        /\ UNCHANGED <<custom_directory, file_settings, envVars, runVars, upgradeVars>>

set_custom_directory ==
    \E d \in CustomDirectories :
        /\ custom_directory' = d
        /\ Called("set", <<>>, <<>>, "none")
        /\ UNCHANGED short_given
        /\ UNCHANGED <<dir_choice, file_settings, envVars, runVars, upgradeVars>>

(***************************************************************************)
(* LoadSingleImage.get_measurement_columns                                 *)
(***************************************************************************)
IMAGE == "Image"
COLTYPE_VARCHAR_FILE_NAME == "COLTYPE_VARCHAR_FILE_NAME"
COLTYPE_VARCHAR_PATH_NAME == "COLTYPE_VARCHAR_PATH_NAME"
COLTYPE_VARCHAR_FORMAT(n) == "varchar(" \o ToString(n) \o ")"

\* '_'.join((feature, image_name))
Feature(feature, image_name) == feature \o "_" \o image_name

\* the columns of one group, with the digest declared before the path
ColumnsOfDigestFirst(image_name) ==
    << <<IMAGE, Feature("FileName", image_name), COLTYPE_VARCHAR_FILE_NAME>>,
       <<IMAGE, Feature("MD5Digest", image_name), COLTYPE_VARCHAR_FORMAT(32)>>,
       <<IMAGE, Feature("PathName", image_name), COLTYPE_VARCHAR_PATH_NAME>> >>

\* lines 256-260: the three columns of one group
ColumnsOf(image_name) ==
    << <<IMAGE, Feature("FileName", image_name), COLTYPE_VARCHAR_FILE_NAME>>,
       <<IMAGE, Feature("PathName", image_name), COLTYPE_VARCHAR_PATH_NAME>>,
       <<IMAGE, Feature("MD5Digest", image_name), COLTYPE_VARCHAR_FORMAT(32)>> >>

RECURSIVE get_measurement_columns(_)
get_measurement_columns(fs) ==
    IF fs = <<>> THEN <<>>
    ELSE ColumnsOf(Head(fs).image_name) \o get_measurement_columns(Tail(fs))

GetMeasurementColumns ==
    /\ Called("get_measurement_columns", <<>>,
              get_measurement_columns(file_settings), "none")
    /\ UNCHANGED short_given
    /\ UNCHANGED <<settingsVars, envVars, runVars, upgradeVars>>

(***************************************************************************)
(* LoadSingleImage.prepare_to_create_batch.  Its first statement reads the *)
(* global DIR_DEFAULT_IMAGE_FOLDER, which the module does not define (it   *)
(* is a local of upgrade_settings): Python raises NameError there.         *)
(***************************************************************************)
prepare_to_create_batch ==
    /\ "DIR_DEFAULT_IMAGE_FOLDER" \notin ModuleGlobals
    /\ Called("prepare_to_create_batch", <<>>, <<>>, "NameError")
    /\ UNCHANGED <<short_given, settingsVars, envVars, runVars, upgradeVars>>

\* the lengths of the value sequences prepare_settings is given
Lengths == 2..MaxValues

Next ==
    \/ add_file
    \/ remove_button
    \/ prepare_settings(Lengths)
    \/ set_file_name
    \/ set_image_name
    \/ set_dir_choice
    \/ set_custom_directory
    \/ GetMeasurementColumns
    \/ prepare_to_create_batch

Spec == SettingsInit /\ [][Next]_vars

(***************************************************************************)
(* LoadSingleImage.get_file_names and LoadSingleImage.run.  run is a loop  *)
(* over the keys of the dictionary of get_file_names; every statement of   *)
(* its body is a step, because provide_image may raise between two of      *)
(* them.  A Python 2 dictionary yields its keys in an order of its own,    *)
(* so the loop takes any key that is left.                                 *)
(***************************************************************************)
\* result[k] = v
Put(d, k, v) == [x \in DOMAIN d \cup {k} |-> IF x = k THEN v ELSE d[x]]

RECURSIVE FileNamesFrom(_, _, _, _)
FileNamesFrom(result, fs, md, substitute) ==
    IF fs = <<>> THEN result
    ELSE FileNamesFrom(Put(result, Head(fs).image_name,
                           IF substitute THEN apply_metadata(md, Head(fs).file_name)
                           ELSE Head(fs).file_name),
                       Tail(fs), md, substitute)

\* a get_file_names that leaves the metadata tags in the file names
get_file_names_raw(fs, md) == FileNamesFrom(<<>>, fs, md, FALSE)

\* lines 219-225
get_file_names(fs, md) == FileNamesFrom(<<>>, fs, md, TRUE)

\* a loop body that decodes the image before it records anything
BodyDecodeFirst == <<"decode", "register", "filename", "pathname", "md5">>

\* lines 233-244: the statements of the loop body, in their order
Body == <<"register", "filename", "pathname", "decode", "md5">>

\* the statement after step, or the head of the loop after the last one
After(step) ==
    LET i == CHOOSE j \in 1..Len(Body) : Body[j] = step
    IN IF i = Len(Body) THEN "loop" ELSE Body[i + 1]

\* provider.provide_image(...).pixel_data: what the file holds
pixel_data(directory, file_name) == <<"pixels", directory, file_name>>
\* hashlib.md5 of the pixels, as hexdigest() gives it
hexdigest(pixels) == <<"md5", pixels>>

\* the configurations run is started on: the groups of a settings list
RunFileNames == {"img.tif", "\\g<P>.tif"}
RunImageNames == ImageNames \cup {"Mask"}
RunGroups(can_remove) ==
    [file_name : RunFileNames, image_name : RunImageNames, can_remove : {can_remove}]
RunConfigurations ==
    {<<g>> \o rest : g \in RunGroups(FALSE), rest \in SeqsUpTo(RunGroups(TRUE), MaxFiles - 1)}

RunInit ==
    /\ platform = "posix"
    /\ default_image_directory = "/in"
    /\ default_output_directory = "/out"
    /\ metadata = <<TRUE, "b">>
    /\ dir_choice \in {DEFAULT_INPUT_FOLDER_NAME, DIR_CUSTOM_WITH_METADATA}
    /\ custom_directory = "./\\g<P>"
    /\ file_settings \in RunConfigurations
    /\ unreadable \in {{}, {"img.tif"}, {"b.tif"}}
    /\ op = "init" /\ given = <<>> /\ ret = <<>> /\ err = "none"
    /\ short_given = FALSE
    /\ pc = "idle" /\ names = <<>> /\ root = "" /\ todo = {} /\ cur = ""
    /\ providers = <<>> /\ store = <<>> /\ decodes = <<>>
    /\ UpgradeIdle

RunFrame == UNCHANGED <<op, given, ret, short_given, settingsVars, envVars,
                        upgradeVars, unreadable>>

\* lines 228-231
RunBegin ==
    /\ pc = "idle"
    /\ names' = get_file_names(file_settings, metadata)
    /\ root' = get_base_directory(platform, default_image_directory,
                                  default_output_directory, metadata,
                                  dir_choice, custom_directory)
    /\ todo' = DOMAIN names'
    /\ decodes' = [n \in DOMAIN names' |-> 0]
    /\ pc' = "loop"
    /\ UNCHANGED <<cur, providers, store, err>>
    /\ RunFrame

\* line 232: the next key
RunLoop ==
    /\ pc = "loop"
    /\ \E n \in todo :
        /\ cur' = n
        /\ todo' = todo \ {n}
    /\ pc' = Body[1]
    /\ UNCHANGED <<names, root, providers, store, decodes, err>>
    /\ RunFrame

\* lines 233-235
RunRegister ==
    /\ pc = "register"
    /\ providers' = Append(providers, [name |-> cur, directory |-> root,
                                       file_name |-> names[cur]])
    /\ pc' = After("register")
    /\ UNCHANGED <<names, root, todo, cur, store, decodes, err>>
    /\ RunFrame

\* line 239
RunFileName ==
    /\ pc = "filename"
    /\ store' = Append(store, <<IMAGE, "FileName_" \o cur, names[cur]>>)
    /\ pc' = After("filename")
    /\ UNCHANGED <<names, root, todo, cur, providers, decodes, err>>
    /\ RunFrame

\* line 240
RunPathName ==
    /\ pc = "pathname"
    /\ store' = Append(store, <<IMAGE, "PathName_" \o cur, root>>)
    /\ pc' = After("pathname")
    /\ UNCHANGED <<names, root, todo, cur, providers, decodes, err>>
    /\ RunFrame

\* line 241: the provider decodes the file, or raises
RunDecode ==
    /\ pc = "decode"
    /\ decodes' = [decodes EXCEPT ![cur] = @ + 1]
    /\ IF names[cur] \in unreadable
       THEN pc' = "aborted" /\ err' = "IOError"
       ELSE pc' = After("decode") /\ err' = err
    /\ UNCHANGED <<names, root, todo, cur, providers, store>>
    /\ RunFrame

\* lines 242-244
RunDigest ==
    /\ pc = "md5"
    /\ store' = Append(store, <<IMAGE, "MD5Digest_" \o cur,
                                hexdigest(pixel_data(root, names[cur]))>>)
    /\ pc' = After("md5")
    /\ UNCHANGED <<names, root, todo, cur, providers, decodes, err>>
    /\ RunFrame

\* the loop is over: run returns
RunEnd ==
    /\ pc = "loop"
    /\ todo = {}
    /\ pc' = "done"
    /\ UNCHANGED <<names, root, todo, cur, providers, store, decodes, err>>
    /\ RunFrame

RunNext ==
    \/ RunBegin
    \/ RunLoop
    \/ RunRegister
    \/ RunFileName
    \/ RunPathName
    \/ RunDecode
    \/ RunDigest
    \/ RunEnd

SpecRun == RunInit /\ [][RunNext]_vars

(***************************************************************************)
(* LoadSingleImage.upgrade_settings.  A Python list raises IndexError when *)
(* it is read past its end; positions are the 0-based ones of the source.  *)
(***************************************************************************)
DIR_DEFAULT_IMAGE_FOLDER == "Default input folder"
DIR_DEFAULT_OUTPUT_FOLDER == "Default output folder"
\* cps.DO_NOT_USE
DO_NOT_USE == "Do not use"

\* values[i] of the source
At0(values, i) == values[i + 1]
\* del values[i:i+2]
DelPair(values, i) == SubSeq(values, 1, i) \o SubSeq(values, i + 3, Len(values))

\* standardize_default_folder_names(setting_values, slot): a legacy name of
\* the default input or output folder in the slot becomes the current one
standardize_default_folder_names(values, slot) ==
    LET old == At0(values, slot)
        new == IF \/ startswith(old, "Default input") \/ startswith(old, "Default Input")
                  \/ startswith(old, "Default image") \/ startswith(old, "Default Image")
               THEN DEFAULT_INPUT_FOLDER_NAME
               ELSE IF \/ startswith(old, "Default output")
                       \/ startswith(old, "Default Output")
               THEN DEFAULT_OUTPUT_FOLDER_NAME
               ELSE old
    IN SubSeq(values, 1, slot) \o <<new>> \o SubSeq(values, slot + 2, Len(values))

\* a loop that visits the offsets of the legacy entries from the lowest one
OffsetsAscending == <<4, 6, 8>>

\* line 281
Offsets == <<8, 6, 4>>

\* lines 281-283: <<the values left, the error raised or "none">>
RECURSIVE RemoveDoNotUse(_, _)
RemoveDoNotUse(values, offsets) ==
    IF offsets = <<>> THEN <<values, "none">>
    ELSE LET i == Head(offsets)
         IN IF i + 1 >= Len(values) THEN <<values, "IndexError">>
            ELSE IF At0(values, i + 1) = DO_NOT_USE
            THEN RemoveDoNotUse(DelPair(values, i), Tail(offsets))
            ELSE RemoveDoNotUse(values, Tail(offsets))

\* lines 272-277
LegacyChoice(values) ==
    IF At0(values, 1) = "." THEN DIR_DEFAULT_IMAGE_FOLDER
    ELSE IF At0(values, 1) = "&" THEN DIR_DEFAULT_OUTPUT_FOLDER
    ELSE DIR_CUSTOM_FOLDER

\* a test of the legacy branch that forgets the revision number
IsLegacyAnyRevision(revision, matlab) == matlab

\* line 268
IsLegacy(revision, matlab) == matlab /\ revision = 4

\* a prefix that also matches the current names of the default folders
MinorPrefixAnyDefault == "Default"

\* line 291
MinorPrefix == "Default image"

Result(values, revision, matlab, error) ==
    [values |-> values, revision |-> revision, matlab |-> matlab, err |-> error]

\* lines 290-298, on what the legacy branch has left
UpgradeCurrent(values, revision, matlab) ==
    IF values = <<>> THEN Result(values, revision, matlab, "IndexError")
    ELSE LET renamed == IF /\ revision = 1 /\ ~matlab
                           /\ startswith(At0(values, 0), MinorPrefix)
                        THEN <<DIR_DEFAULT_IMAGE_FOLDER>> \o Tail(values)
                        ELSE values
         IN Result(standardize_default_folder_names(renamed, 0), revision, matlab, "none")

\* lines 263-298
upgrade_settings(values, revision, matlab) ==
    IF IsLegacy(revision, matlab)
    THEN IF Len(values) < 2 THEN Result(values, revision, matlab, "IndexError")
         ELSE LET left == RemoveDoNotUse([values EXCEPT ![1] = LegacyChoice(values)],
                                         Offsets)
              IN IF left[2] # "none" THEN Result(values, revision, matlab, left[2])
                 ELSE UpgradeCurrent(left[1], 1, FALSE)
    ELSE UpgradeCurrent(values, revision, matlab)

\* the value sequences of a legacy pipeline: a blank, the directory, and
\* four pairs of a file name and an image name
LegacySequences ==
    {<<"", d, "f1", "n1", "f2", n2, f3, n3, "f4", n4>> :
        d \in {".", "&", "/d"}, n2 \in {"n2", DO_NOT_USE}, f3 \in {"f3", DO_NOT_USE},
        n3 \in {"n3", DO_NOT_USE}, n4 \in {"n4", DO_NOT_USE}}

\* the value sequences settings() gives, under the names the directory
\* choice has had
SlotNames == DirChoices \cup {"Default image folder", "Default Image Folder",
                              DIR_DEFAULT_IMAGE_FOLDER, DIR_DEFAULT_OUTPUT_FOLDER}
SavedSequences ==
    {<<c, "./a">> \o pairs :
        c \in SlotNames,
        pairs \in {<<"img.tif", "OrigBlue">>, <<"img.tif", "OrigBlue", "None", "Illum">>}}

UpgradeInputs == LegacySequences \cup SavedSequences \cup {<<>>, <<".">>}

MaxCalls == 2       \* upgrade_settings calls in a row, each on the last result

UpgradeInit ==
    /\ EnvFixed
    /\ dir_choice = DEFAULT_INPUT_FOLDER_NAME
    /\ custom_directory = "."
    /\ file_settings = FirstGroups
    /\ op = "init" /\ given = <<>> /\ ret = <<>> /\ err = "none"
    /\ short_given = FALSE
    /\ RunIdle
    /\ setting_values \in UpgradeInputs
    /\ variable_revision_number \in 1..MaxRevision
    /\ from_matlab \in BOOLEAN

UpgradeSettings ==
    /\ Len(given) < MaxCalls
    /\ err = "none"
    /\ LET r == upgrade_settings(setting_values, variable_revision_number, from_matlab)
       IN /\ setting_values' = r.values
          /\ variable_revision_number' = r.revision
          /\ from_matlab' = r.matlab
          /\ err' = r.err
    /\ op' = "upgrade_settings"
    /\ given' = Append(given, <<setting_values, variable_revision_number, from_matlab>>)
    /\ UNCHANGED <<ret, short_given, settingsVars, envVars, runVars>>

UpgradeNext == UpgradeSettings

SpecUpgrade == UpgradeInit /\ [][UpgradeNext]_vars

(***************************************************************************)
(* Properties of the path resolver.                                        *)
(***************************************************************************)
Resolved == op = "get_base_directory"

\* C1: with 'Custom with metadata' the metadata is substituted into the
\* template first and the prefix is remapped afterwards: a substituted
\* template that begins with "./" resolves to the default input directory
\* joined with the rest of it, one that begins with "&/" to the default
\* output directory joined with the rest of it.
C1_MetadataThenPrefix ==
    (Resolved /\ dir_choice = DIR_CUSTOM_WITH_METADATA) =>
        LET s == apply_metadata(metadata, custom_directory)
        IN /\ startswith(s, "./") =>
                ret = os_path_join(platform, default_image_directory, From(s, 2))
           /\ startswith(s, "&/") =>
                ret = os_path_join(platform, default_output_directory, From(s, 2))

\* the prefix "./" comes out of the substitution, and is remapped
C1_Witness ==
    /\ Resolved /\ dir_choice = DIR_CUSTOM_WITH_METADATA
    /\ custom_directory = "\\g<P>/a" /\ metadata = <<TRUE, ".">>
    /\ default_image_directory = "/in" /\ ret = "/in/a"

\* C2 as stated: with 'Custom folder' the result is the template exactly as
\* configured, whatever the template.
C2_AsConfigured ==
    (Resolved /\ dir_choice = DIR_CUSTOM_FOLDER) => ret = custom_directory

\* the first two characters are "." or "&" and a separator of the platform
C2_Shorthand(c) ==
    \/ Slice(custom_directory, 0, 2) = c \o "/"
    \/ (platform = "nt" /\ Slice(custom_directory, 0, 2) = c \o "\\")

\* C2 as amended: with 'Custom folder' no metadata is substituted, but the
\* prefix is remapped as for 'Custom with metadata': a template that begins
\* with "." or "&" and a path separator resolves to the default input or
\* output directory joined with the template minus its first two characters,
\* and every other template is returned exactly as configured.
C2_NoSubstitutionButRemap ==
    (Resolved /\ dir_choice = DIR_CUSTOM_FOLDER) =>
        /\ C2_Shorthand(".") =>
              ret = os_path_join(platform, default_image_directory,
                                 From(custom_directory, 2))
        /\ C2_Shorthand("&") =>
              ret = os_path_join(platform, default_output_directory,
                                 From(custom_directory, 2))
        /\ (~C2_Shorthand(".") /\ ~C2_Shorthand("&")) => ret = custom_directory

\* a template with the shorthand and a tag: remapped, the tag left alone
C2_Witness ==
    /\ Resolved /\ dir_choice = DIR_CUSTOM_FOLDER
    /\ custom_directory = "./\\g<P>" /\ metadata = <<TRUE, "b">>
    /\ default_image_directory = "/in" /\ ret = "/in/\\g<P>"

(***************************************************************************)
(* Properties of the settings list.                                        *)
(***************************************************************************)
\* C4 as stated: file_settings is never empty, whatever the even length >= 2
\* of the value sequences prepare_settings is given.
C4_NeverEmpty == Len(file_settings) >= 1

\* C4 as amended: starting from create_settings, after any sequence of
\* add_file calls, remove-button removals and prepare_settings calls with
\* value sequences of length >= 4 (the two directory settings and at least
\* one entry), file_settings is non-empty.
C4_NeverEmptyWhenSaved == ~short_given => Len(file_settings) >= 1

\* prepare_settings has cut a longer list down to its first group
C4_Witness ==
    /\ op = "prepare_settings" /\ given = <<4>> /\ ~short_given
    /\ Len(file_settings) = 1 /\ file_settings[1].image_name = "Illum"

\* C8: get_measurement_columns returns three columns for every configured
\* entry, in the order of the configuration: FileName_<name>, PathName_<name>
\* and MD5Digest_<name> of the Image entity, the third one varchar(32).
C8_ThreeColumnsPerName ==
    op = "get_measurement_columns" =>
        /\ Len(ret) = 3 * Len(file_settings)
        /\ \A i \in 1..Len(file_settings) :
              LET n == file_settings[i].image_name
                  k == 3 * (i - 1)
              IN /\ ret[k + 1][1] = "Image" /\ ret[k + 1][2] = "FileName_" \o n
                 /\ ret[k + 2][1] = "Image" /\ ret[k + 2][2] = "PathName_" \o n
                 /\ ret[k + 3][1] = "Image" /\ ret[k + 3][2] = "MD5Digest_" \o n
                 /\ ret[k + 3][3] = "varchar(32)"

\* two entries with different names: six columns in the entries' order
C8_Witness ==
    /\ op = "get_measurement_columns"
    /\ Len(file_settings) = 2
    /\ file_settings[1].image_name = "Illum" /\ file_settings[2].image_name = "OrigBlue"
    /\ Len(ret) = 6 /\ ret[6][2] = "MD5Digest_OrigBlue"

\* C9: prepare_to_create_batch completes without error for each of the four
\* directory choices and returns True, and leaves a directory choice that is
\* no default-folder choice.
C9_BatchCompletes ==
    op = "prepare_to_create_batch" =>
        /\ err = "none"
        /\ ret = TRUE
        /\ dir_choice \notin {DEFAULT_INPUT_FOLDER_NAME, DEFAULT_OUTPUT_FOLDER_NAME}

(***************************************************************************)
(* Properties of run.                                                      *)
(***************************************************************************)
\* the values written for a feature, in the order of the writes
RECURSIVE Written(_, _)
Written(log, feature) ==
    IF log = <<>> THEN <<>>
    ELSE (IF Head(log)[2] = feature THEN <<Head(log)[3]>> ELSE <<>>)
         \o Written(Tail(log), feature)

Registered(n) == \E i \in 1..Len(providers) : providers[i].name = n
BaseDirectory ==
    get_base_directory(platform, default_image_directory, default_output_directory,
                       metadata, dir_choice, custom_directory)
\* the last entry of the configuration with the image name n
LastNamed(n) ==
    CHOOSE i \in 1..Len(file_settings) :
        /\ file_settings[i].image_name = n
        /\ \A j \in (i + 1)..Len(file_settings) : file_settings[j].image_name # n

\* C3 as stated: after run has completed, for every configured entry (f, n)
\* FileName_n is f with the metadata substituted, PathName_n is the base
\* directory, there is an MD5Digest_n, and each was written exactly once.
C3_EveryEntryMeasured ==
    pc = "done" =>
        \A i \in 1..Len(file_settings) :
            LET n == file_settings[i].image_name
            IN /\ Written(store, "FileName_" \o n)
                    = <<apply_metadata(metadata, file_settings[i].file_name)>>
               /\ Written(store, "PathName_" \o n) = <<BaseDirectory>>
               /\ Len(Written(store, "MD5Digest_" \o n)) = 1

\* C3 as amended: after run has completed, for every configured logical
\* name n FileName_n is the file-name template of the last configured entry
\* named n with the metadata substituted (the entries are keyed by their
\* logical name, and a later entry replaces an earlier one of the same
\* name), PathName_n is the base directory, there is an MD5Digest_n, and
\* each of the three was written exactly once.
C3_EveryNameMeasured ==
    pc = "done" =>
        \A i \in 1..Len(file_settings) :
            LET n == file_settings[i].image_name
                f == file_settings[LastNamed(n)].file_name
            IN /\ Written(store, "FileName_" \o n) = <<apply_metadata(metadata, f)>>
               /\ Written(store, "PathName_" \o n) = <<BaseDirectory>>
               /\ Len(Written(store, "MD5Digest_" \o n)) = 1

\* two names, one of them configured twice, a tag in the file name
C3_Witness ==
    /\ pc = "done"
    /\ Len(file_settings) = 3
    /\ file_settings[1].image_name = "OrigBlue" /\ file_settings[1].file_name = "img.tif"
    /\ file_settings[2].image_name = "Illum"
    /\ file_settings[3].image_name = "OrigBlue"
    /\ file_settings[3].file_name = "\\g<P>.tif"
    /\ metadata = <<TRUE, "b">>
    /\ Written(store, "FileName_OrigBlue") = <<"b.tif">>
    /\ Len(store) = 6

HasFeature(feature, n) == Written(store, feature \o "_" \o n) # <<>>
Untouched(n) ==
    /\ ~Registered(n)
    /\ ~HasFeature("FileName", n) /\ ~HasFeature("PathName", n)
    /\ ~HasFeature("MD5Digest", n)
    /\ decodes[n] = 0

\* C10: within run the steps of an image are: provider registered, FileName
\* written, PathName written, provider decoded, MD5Digest written.  When the
\* decoding of an entry fails, run ends with that error and without a second
\* attempt, no later entry is registered or measured, the failing entry has
\* no MD5Digest, and its provider, FileName and PathName are in place.
C10_StepOrder ==
    /\ \A n \in DOMAIN names :
          /\ HasFeature("MD5Digest", n) => decodes[n] = 1
          /\ decodes[n] >= 1 => HasFeature("PathName", n)
          /\ HasFeature("PathName", n) => HasFeature("FileName", n)
          /\ HasFeature("FileName", n) => Registered(n)
          /\ decodes[n] <= 1
    /\ pc = "aborted" =>
          /\ err = "IOError"
          /\ names[cur] \in unreadable
          /\ Registered(cur)
          /\ Written(store, "FileName_" \o cur) = <<names[cur]>>
          /\ Written(store, "PathName_" \o cur) = <<root>>
          /\ ~HasFeature("MD5Digest", cur)
          /\ decodes[cur] = 1
          /\ \A n \in todo : Untouched(n)
          /\ ~ENABLED RunNext

\* the second of three images fails to decode: the first one is complete,
\* the third one is not begun
C10_Witness ==
    /\ pc = "aborted" /\ todo # {}
    /\ Len(providers) = 2 /\ Len(store) = 5
    /\ HasFeature("MD5Digest", providers[1].name)
    /\ providers[2].name = cur /\ ~HasFeature("MD5Digest", cur)

(***************************************************************************)
(* Properties of upgrade_settings.                                         *)
(***************************************************************************)
Upgraded == op = "upgrade_settings"
\* the arguments of the last call, and what it returned
LastValues == given[Len(given)][1]
LastRevision == given[Len(given)][2]
LastMatlab == given[Len(given)][3]
Returned == <<setting_values, variable_revision_number, from_matlab>>

Recognized(revision, matlab) ==
    (matlab /\ revision = 4) \/ (~matlab /\ revision = 1)

\* C5 as stated: a call with a pair of revision number and origin that is
\* neither legacy revision 4 nor non-legacy revision 1 ends in an error.
C5_UnrecognizedRaises ==
    (Upgraded /\ ~Recognized(LastRevision, LastMatlab)) => err # "none"

\* C5 as amended: a call with such a pair and a non-empty value sequence
\* raises no error of its own: it returns the revision number and the origin
\* flag it was given, and the value sequence with nothing but a legacy
\* default-folder name in the directory-choice slot rewritten, so that the
\* unrecognized revision is left for the caller to detect.
C5_UnrecognizedReturned ==
    (Upgraded /\ ~Recognized(LastRevision, LastMatlab) /\ LastValues # <<>>) =>
        /\ err = "none"
        /\ variable_revision_number = LastRevision
        /\ from_matlab = LastMatlab
        /\ Len(setting_values) = Len(LastValues)
        /\ Tail(setting_values) = Tail(LastValues)
        /\ \/ setting_values[1] = LastValues[1]
           \/ /\ startswith(LastValues[1], "Default")
              /\ setting_values[1] \in {DEFAULT_INPUT_FOLDER_NAME,
                                        DEFAULT_OUTPUT_FOLDER_NAME}

\* a legacy sequence under revision 3: returned as revision 3, nothing removed
C5_Witness ==
    /\ Upgraded /\ Len(given) = 1
    /\ LastMatlab /\ LastRevision = 3 /\ LastValues \in LegacySequences
    /\ LastValues[10] = DO_NOT_USE
    /\ Returned = <<LastValues, 3, TRUE>>

\* C6: upgrade_settings returns an already-current configuration (revision
\* 1, not legacy, the directory choice under its current name) unchanged,
\* and returns its own result for an accepted input unchanged.
C6_Idempotent ==
    /\ (/\ Upgraded /\ LastRevision = 1 /\ ~LastMatlab
        /\ LastValues # <<>> /\ LastValues[1] \in DirChoices) =>
            (err = "none" /\ Returned = given[Len(given)])
    /\ (/\ Upgraded /\ Len(given) >= 2
        /\ Recognized(given[1][2], given[1][3])) =>
            (err = "none" /\ Returned = given[Len(given)])

\* a legacy sequence that the first call rewrote, and the second call kept
C6_Witness ==
    /\ Upgraded /\ Len(given) = 2
    /\ given[1][3] /\ given[1][2] = 4 /\ Len(given[1][1]) = 10
    /\ Len(setting_values) = 6 /\ setting_values[1] = DEFAULT_OUTPUT_FOLDER_NAME
    /\ Returned = given[2]

\* the offsets of the legacy entries whose image name is 'Do not use'
Disabled(values) == {i \in {4, 6, 8} : At0(values, i + 1) = DO_NOT_USE}
\* the 0-based positions that stay when the pairs at the offsets D go
Kept(D) == {k \in 0..9 : \A i \in D : k # i /\ k # i + 1}
RECURSIVE Select(_, _, _)
Select(values, keep, k) ==
    IF k >= Len(values) THEN <<>>
    ELSE (IF k \in keep THEN <<At0(values, k)>> ELSE <<>>) \o Select(values, keep, k + 1)

LegacyCall ==
    /\ Upgraded /\ Len(given) = 1
    /\ LastMatlab /\ LastRevision = 4 /\ Len(LastValues) = 10

\* C7 as stated: the migration of a legacy revision-4 sequence removes the
\* pairs at the disabled offsets among 4, 6 and 8, every other field keeps
\* its value and its place in the order, and the result is shorter by twice
\* the number of disabled pairs.
C7_OnlyPairsRemoved ==
    LegacyCall =>
        /\ err = "none"
        /\ setting_values = Select(LastValues, Kept(Disabled(LastValues)), 0)
        /\ Len(setting_values) = 10 - 2 * Cardinality(Disabled(LastValues))

\* C7 as amended: the same, for every field but the first one: the first
\* field, blank in a legacy sequence, is overwritten with the directory
\* choice that the second field stands for.
C7_PairsRemovedChoiceSet ==
    LegacyCall =>
        /\ err = "none"
        /\ Tail(setting_values) = Tail(Select(LastValues, Kept(Disabled(LastValues)), 0))
        /\ Len(setting_values) = 10 - 2 * Cardinality(Disabled(LastValues))
        /\ setting_values[1] =
              (IF LastValues[2] = "." THEN DEFAULT_INPUT_FOLDER_NAME
               ELSE IF LastValues[2] = "&" THEN DEFAULT_OUTPUT_FOLDER_NAME
               ELSE DIR_CUSTOM_FOLDER)

\* the pairs at 4 and 8 are disabled, the one at 6 only has a file name
\* that reads 'Do not use'
C7_Witness ==
    /\ LegacyCall
    /\ Disabled(LastValues) = {4, 8} /\ LastValues[7] = DO_NOT_USE
    /\ Tail(setting_values) = <<LastValues[2], "f1", "n1", DO_NOT_USE, "n3">>

====
